---- MODULE Spec2Model ----
(***************************************************************************)
(* Model of rooms.py: the "Rooms" level generator.                         *)
(*                                                                         *)
(* One invocation of generate() is a state machine over the locals of      *)
(* generate/_finish/_process_as_if_dead_end.  Points are <<x, y>> with     *)
(* 0-based coordinates, arrays are functions over their index tuples.      *)
(* The random source is a sequence of raw draws: the n-outcome draw with   *)
(* raw value d selects outcome d % n.  When the source is seeded the raw   *)
(* draws are recorded on a tape and a second invocation replays them.      *)
(* chance and the values of random.random() are in hundredths.             *)
(***************************************************************************)
EXTENDS Integers, Sequences, FiniteSets, TLC

\* ---------------------------------------------------------------- bounds
MaxCells == 8
MaxSide == 4
MaxC == 3

\* ------------------------------------------------------ program constants
LEFT == 0
RIGHT == 1
UP == 2
DOWN == 3

EMPTY == 0
SPAWNER == 1
BODY == 2

\* chance values offered to generate (hundredths): 0.0, the default 0.35, 1.0
ChanceValues == {0, 35, 100}
\* values random.random() can return, in hundredths of [0.0, 1.0)
RandomValues == {0, 99}

NoResult == [kind |-> "none"]

VARIABLES
    w, h, px, py, chance, c,    \* the arguments of generate
    pc,                         \* position of the invocation
    cells, hor_doors, ver_doors,\* _Arrays
    spawners,                   \* list of the current frontier
    dirs,                       \* dirs of the running _process_as_if_dead_end
    scan,                       \* position of the dead-end scan of _finish
    chests,                     \* chest list
    big_cells, p_big_cells,     \* big-cell mask, potential big cells
    result,                     \* what generate returned (or raised)
    tape, pos, seeded,          \* random source: recorded draws, draws made
    first_result,               \* outcome of the first of two seeded calls
    waves, touched,             \* history: wave iterations, cells made SPAWNER
    door_log                    \* history: door-array accesses of the last step

vars == <<w, h, px, py, chance, c, pc, cells, hor_doors, ver_doors, spawners,
          dirs, scan, chests, big_cells, p_big_cells, result, tape, pos,
          seeded, first_result, waves, touched, door_log>>

\* ---------------------------------------------------------------- helpers
Range(s) == {s[i] : i \in 1..Len(s)}

Min(a, b) == IF a < b THEN a ELSE b

\* lexicographic order of int tuples, as Python compares (x, y)
PointLess(a, b) == a[1] < b[1] \/ (a[1] = b[1] /\ a[2] < b[2])

\* all orders in which the elements of a finite set can be listed
Perms(S) == {s \in [1..Cardinality(S) -> S] : \A e \in S : \E i \in DOMAIN s : s[i] = e}

\* sorted(S) for a set of points
Sorted(S) == CHOOSE s \in Perms(S) : \A i, j \in DOMAIN s : i < j => PointLess(s[i], s[j])

\* list.remove(x): drop the first occurrence
RECURSIVE Remove(_, _)
Remove(s, x) ==
    IF s = <<>> THEN <<>>
    ELSE IF Head(s) = x THEN Tail(s)
    ELSE <<Head(s)>> \o Remove(Tail(s), x)

\* [item for item in s if item in S]
RECURSIVE Filter(_, _)
Filter(s, S) ==
    IF s = <<>> THEN <<>>
    ELSE IF Head(s) \in S THEN <<Head(s)>> \o Filter(Tail(s), S)
    ELSE Filter(Tail(s), S)

\* _PointChecker.__call__
PointChecker(point) == (0 <= point[1] /\ point[1] < w) /\ (0 <= point[2] /\ point[2] < h)

\* the four (neighbour, direction) pairs in the fixed order of the source
NbrPairs(point) ==
    << <<<<point[1] - 1, point[2]>>, LEFT>>,
       <<<<point[1] + 1, point[2]>>, RIGHT>>,
       <<<<point[1], point[2] - 1>>, UP>>,
       <<<<point[1], point[2] + 1>>, DOWN>> >>

\* _get_nbr_points_n_dirs
get_nbr_points_n_dirs(point) ==
    Filter(NbrPairs(point), {pair \in Range(NbrPairs(point)) : PointChecker(pair[1])})

\* _get_nbr_points
get_nbr_points(point) ==
    [i \in 1..Len(get_nbr_points_n_dirs(point)) |-> get_nbr_points_n_dirs(point)[i][1]]

\* itertools.product(range(a), range(b)) as a list
Product(a, b) == [k \in 1..(a * b) |-> <<(k - 1) \div b, (k - 1) % b>>]

\* index set of an array of shape (a, b)
Shape(a, b) == (0..(a - 1)) \X (0..(b - 1))

\* ------------------------------------------------------------ door ledger
\* the array and the index that _get_door and _set_door translate (point, dir) to
DoorSlot(point, dir) ==
    IF dir = LEFT THEN <<"hor", <<point[1] - 1, point[2]>> >>
    ELSE IF dir = RIGHT THEN <<"hor", <<point[1], point[2]>> >>
    ELSE IF dir = UP THEN <<"ver", <<point[1], point[2] - 1>> >>
    ELSE <<"ver", <<point[1], point[2]>> >>

\* _get_door, reading from the arrays hor and ver
get_door(point, dir, hor, ver) ==
    LET a == DoorSlot(point, dir)
    IN  IF a[1] = "hor" THEN hor[a[2]] ELSE ver[a[2]]

\* _set_door: the arrays after the assignment
set_door(point, dir, value, hor, ver) ==
    LET a == DoorSlot(point, dir)
    IN  IF a[1] = "hor"
        THEN [hor |-> [hor EXCEPT ![a[2]] = value], ver |-> ver]
        ELSE [hor |-> hor, ver |-> [ver EXCEPT ![a[2]] = value]]

\* the access record of a _get_door / _set_door call
DoorAccess(point, dir) ==
    [point |-> point, dir |-> dir,
     arr |-> DoorSlot(point, dir)[1], slot |-> DoorSlot(point, dir)[2]]

\* the access record of _big_cell_filter / _place_big_cell at a block corner
BlockAccess(point, arr, slot) ==
    [point |-> point, dir |-> -1, arr |-> arr, slot |-> slot]

\* the shape of the door array named arr
DoorShape(arr) == IF arr = "hor" THEN <<w - 1, h>> ELSE <<w, h - 1>>

\* the index of access a is one numpy rejects with IndexError
Raises(a) ==
    \E k \in 1..2 :
        a.slot[k] < -DoorShape(a.arr)[k] \/ a.slot[k] >= DoorShape(a.arr)[k]

\* for dir in ds: _set_door(point, dir, True, data)
RECURSIVE OpenDoors(_, _, _, _)
OpenDoors(point, ds, hor, ver) ==
    IF ds = <<>> THEN [hor |-> hor, ver |-> ver]
    ELSE LET d == set_door(point, Head(ds), TRUE, hor, ver)
         IN  OpenDoors(point, Tail(ds), d.hor, d.ver)

\* directions to all in-bounds neighbours, whatever their cell state
DirsToAny(point, st) ==
    LET pairs == get_nbr_points_n_dirs(point)
    IN  [i \in 1..Len(pairs) |-> pairs[i][2]]

\* directions from point to the in-bounds neighbours whose cell state is st
DirsTo(point, st) ==
    LET pairs == get_nbr_points_n_dirs(point)
        keep == Filter(pairs, {pair \in Range(pairs) : cells[pair[1]] = st})
    IN  [i \in 1..Len(keep) |-> keep[i][2]]

\* a wiring that opens the door to every in-bounds neighbour
wire_all(point, hor, ver) ==
    LET pairs == get_nbr_points_n_dirs(point)
    IN  OpenDoors(point, [i \in 1..Len(pairs) |-> pairs[i][2]], hor, ver)

\* a wiring that looks for _BODY cells instead of _SPAWNER cells
wire_body(point, hor, ver) == OpenDoors(point, DirsTo(point, BODY), hor, ver)

\* a wiring that stops after the first adjacent _SPAWNER cell
wire_first(point, hor, ver) ==
    LET ds == DirsTo(point, SPAWNER)
    IN  OpenDoors(point, SubSeq(ds, 1, Min(1, Len(ds))), hor, ver)

\* a wiring that never opens the door to the cell below
wire_but_down(point, hor, ver) ==
    OpenDoors(point, Filter(DirsTo(point, SPAWNER), {LEFT, RIGHT, UP}), hor, ver)

\* _wire: open the door from the head to every adjacent _SPAWNER cell
wire(point, hor, ver) == OpenDoors(point, DirsTo(point, SPAWNER), hor, ver)

\* for head in heads: _wire(head, data, filter_)
RECURSIVE WireAll(_, _, _)
WireAll(heads, hor, ver) ==
    IF heads = <<>> THEN [hor |-> hor, ver |-> ver]
    ELSE LET d == wire(Head(heads), hor, ver)
         IN  WireAll(Tail(heads), d.hor, d.ver)

\* ---------------------------------------------------------- random source
\* raw values the i-th draw of a call can take when it has n outcomes:
\* the recorded value while the tape lasts, any outcome afterwards
RawDraws(i, n) ==
    IF pos + i <= Len(tape) THEN {tape[pos + i]} ELSE 0..(n - 1)

\* the draws ds are consumed; a seeded source records the new ones
Consume(ds) ==
    /\ pos' = pos + Len(ds)
    /\ tape' = IF seeded /\ pos + Len(ds) > Len(tape)
               THEN tape \o SubSeq(ds, Len(tape) - pos + 1, Len(ds))
               ELSE tape

\* random.choice(s) for the raw draw d
Choice(s, d) == s[(d % Len(s)) + 1]

\* raw draw sequences of random.sample(population of n, k): draw i has n-i+1 outcomes
RECURSIVE SampleDraws(_, _, _)
SampleDraws(i, k, n) ==
    IF i > k THEN {<<>>}
    ELSE {<<d>> \o rest : d \in RawDraws(i, n - i + 1), rest \in SampleDraws(i + 1, k, n)}

\* a sampling that leaves the drawn element in the pool
SampleWithRepeats(pool, ds) ==
    [i \in 1..Len(ds) |-> pool[(ds[i] % Len(pool)) + 1]]

\* random.sample(pool, Len(ds)): result[i] = pool[j]; pool[j] = pool[n-i-1]
RECURSIVE Sample(_, _)
Sample(pool, ds) ==
    IF ds = <<>> THEN <<>>
    ELSE LET n == Len(pool)
             j == (Head(ds) % n) + 1
             rest == [i \in 1..(n - 1) |-> IF i = j THEN pool[n] ELSE pool[i]]
         IN  <<pool[j]>> \o Sample(rest, Tail(ds))

\* ------------------------------------------------------------------- init
\* argument tuples offered to generate, valid and invalid, up to side n
Args(n) ==
    /\ w \in 0..n
    /\ h \in 0..n
    /\ w * h <= MaxCells
    /\ px \in -1..n
    /\ py \in -1..n
    /\ chance \in ChanceValues
    /\ c \in -1..MaxC

\* the locals of an invocation that has not started
Fresh ==
    /\ pc = "call"
    /\ cells = <<>>
    /\ hor_doors = <<>>
    /\ ver_doors = <<>>
    /\ spawners = <<>>
    /\ dirs = <<>>
    /\ scan = 0
    /\ chests = <<>>
    /\ big_cells = <<>>
    /\ p_big_cells = <<>>
    /\ result = NoResult
    /\ pos = 0
    /\ waves = 0
    /\ touched = {}
    /\ door_log = {}

Init ==
    /\ Args(MaxSide)
    /\ Fresh
    /\ tape = <<>>
    /\ seeded = FALSE
    /\ first_result = NoResult

\* two calls with the same arguments on a source seeded alike
InitDet ==
    /\ Args(MaxSide)
    /\ Fresh
    /\ tape = <<>>
    /\ seeded = TRUE
    /\ first_result = NoResult

\* --------------------------------------------------------------- generate
\* the argument checks without the one on c
ValidateButC ==
    IF w <= 0 THEN "w must be positive"
    ELSE IF h <= 0 THEN "h must be positive"
    ELSE IF ~(0 <= px /\ px < w) THEN "0 <= px < w must be True"
    ELSE IF ~(0 <= py /\ py < h) THEN "0 <= py < h must be True"
    ELSE IF ~(0 < chance /\ chance < 100) THEN "0.0 < chance < 1.0 must be True"
    ELSE "ok"

\* the argument checks of generate, in order; "ok" when all pass
Validate ==
    IF w <= 0 THEN "w must be positive"
    ELSE IF h <= 0 THEN "h must be positive"
    ELSE IF ~(0 <= px /\ px < w) THEN "0 <= px < w must be True"
    ELSE IF ~(0 <= py /\ py < h) THEN "0 <= py < h must be True"
    ELSE IF ~(0 < chance /\ chance < 100) THEN "0.0 < chance < 1.0 must be True"
    ELSE IF c < 0 THEN "c can not be negative"
    ELSE "ok"

\* cells[*p] = st for every p in pts
Mark(cs, pts, st) == [p \in DOMAIN cs |-> IF p \in pts THEN st ELSE cs[p]]

\* generate, up to the growth loop: validation, allocation, epicenter
Generate ==
    /\ pc = "call"
    /\ IF Validate # "ok"
       THEN /\ pc' = "error"
            /\ result' = [kind |-> "InvalidArgument", cause |-> Validate]
            /\ UNCHANGED <<cells, hor_doors, ver_doors, spawners, touched>>
       ELSE /\ pc' = "grow"
            /\ cells' = [p \in Shape(w, h) |-> IF p = <<px, py>> THEN SPAWNER ELSE EMPTY]
            /\ hor_doors' = [p \in Shape(w - 1, h) |-> FALSE]
            /\ ver_doors' = [p \in Shape(w, h - 1) |-> FALSE]
            /\ spawners' = << <<px, py>> >>
            /\ touched' = {<<px, py>>}
            /\ UNCHANGED result
    /\ door_log' = {}
    /\ UNCHANGED <<w, h, px, py, chance, c, dirs, scan, chests, big_cells,
                   p_big_cells, tape, pos, seeded, first_result, waves>>

\* a vacancy scan that does not look at the state of the neighbours
VacanciesAnyState ==
    UNION {Range(get_nbr_points(spawners[i])) : i \in 1..Len(spawners)}

\* the vacancy scan: empty in-bounds neighbours of the spawners
Vacancies ==
    UNION {{cell \in Range(get_nbr_points(spawners[i])) : cells[cell] = EMPTY}
           : i \in 1..Len(spawners)}

\* the vacancy set handed over in its iteration order, not sorted
UnsortedPopulations(vacancies) == Perms(vacancies)

\* the lists random.sample can be handed for the vacancy set
SamplePopulations(vacancies) == {Sorted(vacancies)}

\* the orders in which iterating the set of heads can list it
HeadOrders(vacancies) == Perms(vacancies)

\* an iteration that extends the frontier list without clearing it
AdvanceKeepFrontier(heads) ==
    LET d == WireAll(heads, hor_doors, ver_doors)
    IN  /\ door_log' = {}
        /\ hor_doors' = d.hor
        /\ ver_doors' = d.ver
        /\ cells' = Mark(cells, Range(spawners) \cup Range(heads), SPAWNER)
        /\ spawners' = spawners \o heads
        /\ touched' = touched \cup Range(heads)
        /\ UNCHANGED <<pc, scan, chests>>

\* the door writes of wiring the heads
WireAccesses(heads) ==
    UNION {{DoorAccess(head, dir) : dir \in Range(DirsTo(head, SPAWNER))}
           : head \in Range(heads)}

\* wire the heads, turn spawners into body and heads into spawners
Advance(heads) ==
    LET d == WireAll(heads, hor_doors, ver_doors)
    IN  /\ door_log' = WireAccesses(heads)
        /\ hor_doors' = d.hor
        /\ ver_doors' = d.ver
        /\ cells' = Mark(Mark(cells, Range(spawners), BODY), Range(heads), SPAWNER)
        /\ spawners' = heads
        /\ touched' = touched \cup Range(heads)
        /\ UNCHANGED <<pc, scan, chests>>

\* one iteration of the growth loop
Wave ==
    /\ pc = "grow"
    /\ waves' = waves + 1
    /\ LET vacancies == Vacancies
           L == Cardinality(vacancies)
       IN  IF L = 0
           THEN \* no vacancy: spawners become body, _finish is entered
                /\ cells' = Mark(cells, Range(spawners), BODY)
                /\ pc' = "dead_ends"
                /\ scan' = 0
                /\ chests' = <<>>
                /\ spawners' = <<>>    \* the local is dead once _finish is called
                /\ door_log' = {}
                /\ UNCHANGED <<hor_doors, ver_doors, touched, tape, pos>>
           ELSE IF L > c
           THEN \E pool \in SamplePopulations(vacancies) :
                \E ds \in SampleDraws(1, c, L) :
                    /\ Advance(Sample(pool, ds))
                    /\ Consume(ds)
           ELSE \E heads \in HeadOrders(vacancies) :
                    /\ Advance(heads)
                    /\ UNCHANGED <<tape, pos>>
    /\ UNCHANGED <<w, h, px, py, chance, c, dirs, big_cells, p_big_cells,
                   result, seeded, first_result>>

\* ---------------------------------------------------------------- _finish
\* the scan taken from the last cell to the first
ScanCellBackwards == Product(w, h)[w * h - scan]

\* the cell the dead-end scan of _finish is at
ScanCell == Product(w, h)[scan + 1]

\* the directions of ds whose door is open, in order
OpenDirs(point, ds) ==
    Filter(ds, {dir \in Range(ds) : get_door(point, dir, hor_doors, ver_doors)})

\* the internal error of an invocation that was validated
Fail(kind) ==
    /\ pc' = "failed"
    /\ result' = [kind |-> kind]

\* _process_as_if_dead_end returned: the scan moves on
NextCell(isChest) ==
    /\ pc' = "dead_ends"
    /\ scan' = scan + 1
    /\ dirs' = <<>>
    /\ chests' = IF isChest THEN Append(chests, ScanCell) ELSE chests
    /\ UNCHANGED result

\* len(dirs) == 1: the cell is a dead end forever
IsLeafLoose(ds) == Len(ds) <= 1
IsLeaf(ds) == Len(ds) = 1

\* the directions the door scan hands to _get_door: it stops at a second open door
RECURSIVE DoorReads(_, _, _)
DoorReads(point, ds, found) ==
    IF ds = <<>> THEN {}
    ELSE LET open == get_door(point, Head(ds), hor_doors, ver_doors)
         IN  {Head(ds)} \cup (IF open /\ found THEN {}
                              ELSE DoorReads(point, Tail(ds), found \/ open))

\* _process_as_if_dead_end up to its first random choice
ProcessAsIfDeadEnd ==
    /\ pc = "dead_ends"
    /\ scan < w * h
    /\ door_log' = LET ds == DirsTo(ScanCell, BODY)
                   IN  IF cells[ScanCell] # BODY \/ IsLeaf(ds) THEN {}
                       ELSE {DoorAccess(ScanCell, dir) : dir \in DoorReads(ScanCell, ds, FALSE)}
    /\ LET ds == DirsTo(ScanCell, BODY)
           open == OpenDirs(ScanCell, ds)
       IN  IF cells[ScanCell] # BODY THEN NextCell(FALSE)
           ELSE IF IsLeaf(ds) THEN NextCell(TRUE)
           ELSE IF Len(open) >= 2 THEN NextCell(FALSE)
           ELSE IF Len(open) = 0
           THEN \* dirs.remove(None)
                /\ Fail("ValueError")
                /\ UNCHANGED <<scan, dirs, chests>>
           ELSE /\ dirs' = Remove(ds, open[1])
                /\ pc' = "choice"
                /\ UNCHANGED <<scan, chests, result>>
    /\ UNCHANGED <<w, h, px, py, chance, c, cells, hor_doors, ver_doors,
                   spawners, big_cells, p_big_cells, tape, pos, seeded,
                   first_result, waves, touched>>

\* choice = random.choice(dirs); _set_door(point, choice, True, data); dirs.remove(choice)
OpenChoice ==
    /\ pc = "choice"
    /\ IF dirs = <<>>
       THEN \* random.choice of an empty list
            /\ Fail("IndexError")
            /\ door_log' = {}
            /\ UNCHANGED <<hor_doors, ver_doors, dirs, tape, pos>>
       ELSE \E d \in RawDraws(1, Len(dirs)) :
                LET choice == Choice(dirs, d)
                    door == set_door(ScanCell, choice, TRUE, hor_doors, ver_doors)
                IN  /\ door_log' = {DoorAccess(ScanCell, choice)}
                    /\ hor_doors' = door.hor
                    /\ ver_doors' = door.ver
                    /\ dirs' = Remove(dirs, choice)
                    /\ Consume(<<d>>)
                    /\ pc' = "loop"
                    /\ UNCHANGED result
    /\ UNCHANGED <<w, h, px, py, chance, c, cells, spawners, scan, chests,
                   big_cells, p_big_cells, seeded, first_result, waves, touched>>

\* the values random.random() can return at this draw
RandomDraws ==
    IF pos + 1 <= Len(tape) THEN {tape[pos + 1]} ELSE RandomValues

\* while (len(dirs) > 0) and (random.random() <= chance)
Continue ==
    /\ pc = "loop"
    /\ IF Len(dirs) > 0
       THEN \E r \in RandomDraws :
                /\ Consume(<<r>>)
                /\ IF r <= chance
                   THEN /\ pc' = "choice"
                        /\ UNCHANGED <<scan, dirs, chests, result>>
                   ELSE NextCell(FALSE)
       ELSE /\ NextCell(FALSE)
            /\ UNCHANGED <<tape, pos>>
    /\ door_log' = {}
    /\ UNCHANGED <<w, h, px, py, chance, c, cells, hor_doors, ver_doors,
                   spawners, big_cells, p_big_cells, seeded, first_result,
                   waves, touched>>

\* _big_cell_filter
big_cell_filter(point) ==
    /\ hor_doors[<<point[1], point[2]>>]
    /\ ver_doors[<<point[1], point[2]>>]
    /\ hor_doors[<<point[1], point[2] + 1>>]
    /\ ver_doors[<<point[1] + 1, point[2]>>]

\* the reads of _big_cell_filter, in the order of its conjunction
BigCellReads(point) ==
    << <<"hor", <<point[1], point[2]>> >>,
       <<"ver", <<point[1], point[2]>> >>,
       <<"hor", <<point[1], point[2] + 1>> >>,
       <<"ver", <<point[1] + 1, point[2]>> >> >>

\* numpy reads a negative index from the end of the axis
Wrap(i, n) == IF i < 0 THEN i + n ELSE i

\* the value an accepted read returns
DoorValue(a) ==
    LET s == <<Wrap(a.slot[1], DoorShape(a.arr)[1]), Wrap(a.slot[2], DoorShape(a.arr)[2])>>
    IN  IF a.arr = "hor" THEN hor_doors[s] ELSE ver_doors[s]

\* the reads _big_cell_filter makes at point from its i-th on: the conjunction
\* stops at a false door and at an index numpy rejects
RECURSIVE FilterReads(_, _)
FilterReads(point, i) ==
    IF i > 4 THEN {}
    ELSE LET a == BlockAccess(point, BigCellReads(point)[i][1], BigCellReads(point)[i][2])
         IN  {a} \cup (IF Raises(a) THEN {}
                       ELSE IF ~DoorValue(a) THEN {}
                       ELSE FilterReads(point, i + 1))

\* the reads of the comprehension over the candidate corners
RECURSIVE ListReads(_)
ListReads(cands) ==
    IF cands = <<>> THEN {}
    ELSE LET r == FilterReads(Head(cands), 1)
         IN  r \cup (IF \E a \in r : Raises(a) THEN {} ELSE ListReads(Tail(cands)))

\* candidate corners taken over the whole grid
BigCellCandidatesAll == Product(w, h)

\* itertools.product(range(w - 1), range(h - 1)): the candidate corners
BigCellCandidates == Product(w - 1, h - 1)

\* the scan is over: big_cells is allocated, the potential big cells listed
ListBigCells ==
    /\ pc = "dead_ends"
    /\ scan = w * h
    /\ door_log' = ListReads(BigCellCandidates)
    /\ IF \E a \in ListReads(BigCellCandidates) : Raises(a)
       THEN /\ Fail("IndexError")
            /\ UNCHANGED <<big_cells, p_big_cells>>
       ELSE /\ big_cells' = [p \in Shape(w - 1, h - 1) |-> FALSE]
            /\ p_big_cells' = LET all == BigCellCandidates
                              IN  Filter(all, {cell \in Range(all) : big_cell_filter(cell)})
            /\ pc' = "merge"
            /\ UNCHANGED result
    /\ UNCHANGED <<w, h, px, py, chance, c, cells, hor_doors, ver_doors,
                   spawners, dirs, scan, chests, tape, pos, seeded,
                   first_result, waves, touched>>

\* a block that misses its lower right cell
BlockCellsThree(point) ==
    {<<point[1], point[2]>>, <<point[1] + 1, point[2]>>, <<point[1], point[2] + 1>>}

\* the four cells _place_big_cell empties for the upper left corner point
BlockCells(point) ==
    {<<point[1], point[2]>>, <<point[1] + 1, point[2]>>,
     <<point[1], point[2] + 1>>, <<point[1] + 1, point[2] + 1>>}

\* horizontal slots taken with the index pattern of the vertical ones
BigCellHorDoorsMixed(point) ==
    {<<point[1], point[2]>>, <<point[1] + 1, point[2]>>}

\* the slots of hor_doors / ver_doors _place_big_cell sets False
BigCellHorDoors(point) ==
    {<<point[1], point[2]>>, <<point[1], point[2] + 1>>}
BigCellVerDoors(point) ==
    {<<point[1], point[2]>>, <<point[1] + 1, point[2]>>}

\* arr[*s] = False for every s in slots
Close(arr, slots) == [s \in DOMAIN arr |-> IF s \in slots THEN FALSE ELSE arr[s]]

\* _difference
difference(x, y) == IF x < y THEN y - x ELSE x - y

\* _max_point_difference
max_point_difference(a, b) ==
    IF difference(a[1], b[1]) >= difference(a[2], b[2])
    THEN difference(a[1], b[1])
    ELSE difference(a[2], b[2])

\* a filter that only takes the chosen corner out
SurvivingButChoice(cands, choice) ==
    Filter(cands, {cell \in Range(cands) : max_point_difference(cell, choice) > 0})

\* a filter that measures the distance from the first candidate of the list
SurvivingFarFromFirst(cands, choice) ==
    Filter(cands, {cell \in Range(cands) : max_point_difference(cell, cands[1]) > 1})

\* the potential big cells that stay after choice was placed
Surviving(cands, choice) ==
    Filter(cands, {cell \in Range(cands) : max_point_difference(cell, choice) > 1})

\* one iteration of the merge loop, _place_big_cell included
PlaceBigCell ==
    /\ pc = "merge"
    /\ Len(p_big_cells) > 0
    /\ \E d \in RawDraws(1, Len(p_big_cells)) :
           LET choice == Choice(p_big_cells, d)
           IN  /\ cells' = Mark(cells, BlockCells(choice), EMPTY)
               /\ hor_doors' = Close(hor_doors, BigCellHorDoors(choice))
               /\ ver_doors' = Close(ver_doors, BigCellVerDoors(choice))
               /\ big_cells' = [big_cells EXCEPT ![choice] = TRUE]
               /\ door_log' =
                      {BlockAccess(choice, "hor", s) : s \in BigCellHorDoors(choice)}
                      \cup {BlockAccess(choice, "ver", s) : s \in BigCellVerDoors(choice)}
               /\ p_big_cells' = Surviving(p_big_cells, choice)
               /\ Consume(<<d>>)
    /\ UNCHANGED <<w, h, px, py, chance, c, pc, spawners, dirs, scan, chests,
                   result, seeded, first_result, waves, touched>>

\* the tuple _finish returns
Returned ==
    [kind |-> "ok",
     cells |-> [p \in Shape(w, h) |-> cells[p] = BODY],
     big_cells |-> big_cells,
     hor_doors |-> hor_doors,
     ver_doors |-> ver_doors,
     chests |-> chests]

\* the merge loop is over: the bool array is built and the result returned
Return ==
    /\ pc = "merge"
    /\ Len(p_big_cells) = 0
    /\ result' = Returned
    /\ pc' = "done"
    /\ door_log' = {}
    /\ UNCHANGED <<w, h, px, py, chance, c, cells, hor_doors, ver_doors,
                   spawners, dirs, scan, chests, big_cells, p_big_cells,
                   tape, pos, seeded, first_result, waves, touched>>

\* ------------------------------------------------------------ second call
Ended == pc \in {"done", "error", "failed"}

\* the source is seeded as before and generate is called again
CallAgain ==
    /\ Ended
    /\ seeded
    /\ first_result = NoResult
    /\ first_result' = [kind |-> "first", result |-> result, draws |-> pos]
    /\ pc' = "call"
    /\ cells' = <<>>
    /\ hor_doors' = <<>>
    /\ ver_doors' = <<>>
    /\ spawners' = <<>>
    /\ dirs' = <<>>
    /\ scan' = 0
    /\ chests' = <<>>
    /\ big_cells' = <<>>
    /\ p_big_cells' = <<>>
    /\ result' = NoResult
    /\ pos' = 0
    /\ waves' = 0
    /\ touched' = {}
    /\ door_log' = {}
    /\ UNCHANGED <<w, h, px, py, chance, c, tape, seeded>>

\* ---------------------------------------------------------- specification
Next ==
    \/ Generate
    \/ Wave
    \/ ProcessAsIfDeadEnd
    \/ OpenChoice
    \/ Continue
    \/ ListBigCells
    \/ PlaceBigCell
    \/ Return

Spec == Init /\ [][Next]_vars

NextDet == Next \/ CallAgain

SpecDet == InitDet /\ [][NextDet]_vars

\* ------------------------------------------------- vocabulary of the claims
\* the preconditions of generate, as the interface states them
ValidArgs ==
    /\ w > 0 /\ h > 0
    /\ 0 <= px /\ px < w
    /\ 0 <= py /\ py < h
    /\ 0 < chance /\ chance < 100
    /\ c >= 0

Done == pc = "done"

AllCells == Shape(w, h)

\* cells reported occupied by the returned mask
Occupied == {p \in AllCells : result.cells[p]}

\* corners marked in the returned big-cell mask
BigCorners == {b \in DOMAIN result.big_cells : result.big_cells[b]}

\* p is one of the four cells of the 2x2 block with upper left corner b
InBlock(p, b) == p[1] \in {b[1], b[1] + 1} /\ p[2] \in {b[2], b[2] + 1}

\* cells absorbed by a merged block of the returned big-cell mask
Merged == {p \in AllCells : \E b \in BigCorners : InBlock(p, b)}

Abs(n) == IF n < 0 THEN -n ELSE n

\* orthogonally adjacent points
Adjacent(p, q) == Abs(p[1] - q[1]) + Abs(p[2] - q[2]) = 1

\* the slot of the door between adjacent cells p and q is true in hor/ver
DoorOpen(p, q, hor, ver) ==
    IF p[2] = q[2]
    THEN hor[<<Min(p[1], q[1]), p[2]>>]
    ELSE ver[<<p[1], Min(p[2], q[2])>>]

\* the two cells separated by a slot of the horizontal / vertical door array
HorEnds(s) == {<<s[1], s[2]>>, <<s[1] + 1, s[2]>>}
VerEnds(s) == {<<s[1], s[2]>>, <<s[1], s[2] + 1>>}

\* the cells that are reached from R over the edges E
RECURSIVE Reachable(_, _)
Reachable(R, E) ==
    LET N == R \cup {e[2] : e \in {e \in E : e[1] \in R}}
    IN  IF N = R THEN R ELSE Reachable(N, E)

\* every two cells of S are joined by a path over E
Connected(S, E) == \A p \in S : Reachable({p}, E) = S

\* pairs of adjacent cells of S whose door is true in the result
DoorEdges(S) ==
    {e \in S \X S : Adjacent(e[1], e[2])
                    /\ DoorOpen(e[1], e[2], result.hor_doors, result.ver_doors)}

\* pairs of adjacent cells of one merged block
BlockEdges ==
    {e \in Merged \X Merged :
        Adjacent(e[1], e[2]) /\ \E b \in BigCorners : InBlock(e[1], b) /\ InBlock(e[2], b)}

\* in-bounds orthogonal neighbours of p
Nbrs(p) == {q \in AllCells : Adjacent(p, q)}

\* ------------------------------------------------------------------ claims
\* C1 (as stated): in a returned result with w*h > 1 the occupied cells form
\* one component under open-door adjacency.
C1_OccupiedConnected ==
    (Done /\ w * h > 1) => Connected(Occupied, DoorEdges(Occupied))

\* C1 (amended): in a returned result with w*h > 1 the cells that are occupied
\* or absorbed by a merged block form one component, where a step crosses a
\* true door or stays inside one merged block.
C1_ConnectedThroughBigCells ==
    (Done /\ w * h > 1) =>
        Connected(Occupied \cup Merged, DoorEdges(Occupied \cup Merged) \cup BlockEdges)

\* a result with a merged block between occupied cells that only it joins
C1_Witness ==
    /\ Done /\ w * h > 1
    /\ BigCorners # {}
    /\ ~Connected(Occupied, DoorEdges(Occupied))

\* C2 (as stated): in a returned result every true door has both of its cells
\* true in the occupied mask.
C2_DoorsJoinOccupied ==
    Done =>
        /\ \A s \in DOMAIN result.hor_doors : result.hor_doors[s] => HorEnds(s) \subseteq Occupied
        /\ \A s \in DOMAIN result.ver_doors : result.ver_doors[s] => VerEnds(s) \subseteq Occupied

\* C2 (amended): in a returned result every true door has both of its cells
\* occupied or absorbed by a merged block.
C2_DoorsJoinOccupiedOrMerged ==
    Done =>
        /\ \A s \in DOMAIN result.hor_doors :
               result.hor_doors[s] => HorEnds(s) \subseteq (Occupied \cup Merged)
        /\ \A s \in DOMAIN result.ver_doors :
               result.ver_doors[s] => VerEnds(s) \subseteq (Occupied \cup Merged)

\* a result in which a true door leads into a merged block
C2_Witness ==
    /\ Done
    /\ \E s \in DOMAIN result.hor_doors :
           result.hor_doors[s] /\ HorEnds(s) \cap Merged # {} /\ HorEnds(s) \cap Occupied # {}

\* C3 (as stated): in a returned result every chest has exactly one in-bounds
\* orthogonal neighbour that is true in the occupied mask.
C3_ChestHasOneOccupiedNbr ==
    Done => \A i \in 1..Len(result.chests) :
                Cardinality(Nbrs(result.chests[i]) \cap Occupied) = 1

\* C3 (amended): in a returned result every chest has exactly one in-bounds
\* orthogonal neighbour that is occupied or absorbed by a merged block.
C3_ChestHasOneBuiltNbr ==
    Done => \A i \in 1..Len(result.chests) :
                Cardinality(Nbrs(result.chests[i]) \cap (Occupied \cup Merged)) = 1

\* a result with a chest whose only neighbour was absorbed by a merged block
C3_Witness ==
    /\ Done
    /\ \E i \in 1..Len(result.chests) :
           /\ Nbrs(result.chests[i]) \cap Occupied = {}
           /\ Nbrs(result.chests[i]) \cap Merged # {}

\* corners marked so far in the big-cell mask of the running merge
MarkedCorners == {b \in DOMAIN big_cells : big_cells[b]}

\* C4: after every iteration of the merge loop and in the result, two distinct
\* marked corners are more than Chebyshev distance 1 apart, so their blocks
\* share no cell.
C4_BigCellsDisjoint ==
    pc \in {"merge", "done"} =>
        \A a, b \in MarkedCorners :
            a # b => /\ (Abs(a[1] - b[1]) > 1 \/ Abs(a[2] - b[2]) > 1)
                     /\ ~\E p \in AllCells : InBlock(p, a) /\ InBlock(p, b)

\* a result with two merged blocks
C4_Witness == Done /\ Cardinality(BigCorners) >= 2

\* C5: on valid arguments no internal failure is reachable.
C5_NoInternalFailure == ValidArgs => pc # "failed"

\* C6: generate(1, 1, 0, 0) with default chance and c returns the single cell
\* occupied, no door slot, an empty big-cell mask and no chest.
C6_MinimalCase ==
    (w = 1 /\ h = 1 /\ px = 0 /\ py = 0 /\ chance = 35 /\ c = 3 /\ pc \in {"done", "failed"}) =>
        /\ pc = "done"
        /\ result.cells = (<<0, 0>> :> TRUE)
        /\ DOMAIN result.big_cells = {}
        /\ DOMAIN result.hor_doors = {}
        /\ DOMAIN result.ver_doors = {}
        /\ result.chests = <<>>

\* C7: with a violated precondition the call ends in the invalid-argument
\* error with no array created, no draw consumed and no result.
C7_InvalidArgsRejected ==
    (~ValidArgs /\ pc # "call") =>
        /\ pc = "error"
        /\ result.kind = "InvalidArgument"
        /\ cells = <<>> /\ hor_doors = <<>> /\ ver_doors = <<>>
        /\ big_cells = <<>> /\ chests = <<>> /\ spawners = <<>>
        /\ pos = 0

\* a call rejected for its arguments
C7_Witness == ~ValidArgs /\ pc = "error" /\ w > 0 /\ h > 0

\* C8: the second of two calls with the same arguments on a source seeded
\* alike makes the same draws and ends with the same outcome as the first.
C8_Deterministic ==
    (pc \in {"done", "error", "failed"} /\ first_result.kind = "first") =>
        /\ result = first_result.result
        /\ pos = first_result.draws
        /\ pos = Len(tape)

\* a second call that returned after sampling heads and merging a block
C8_Witness ==
    /\ Done /\ first_result.kind = "first"
    /\ pos >= 3
    /\ BigCorners # {}

\* C9: with c >= 1 the growth loop runs at most w*h wave iterations, the
\* final one included: the count never exceeds w*h, and whenever another
\* iteration is about to run fewer than w*h have run.
C9_WaveBound ==
    (ValidArgs /\ c >= 1) =>
        /\ waves <= w * h
        /\ pc = "grow" => waves < w * h

\* growth ended after exactly w*h iterations on a grid of several cells
C9_Witness == ValidArgs /\ c >= 1 /\ pc = "dead_ends" /\ w * h > 2 /\ waves = w * h

\* C10 (as stated): in a returned result a cell is occupied iff it was touched
\* during growth.
C10_OccupiedIffTouched ==
    Done => \A p \in AllCells : result.cells[p] <=> p \in touched

\* C10 (amended): in a returned result a cell is occupied iff it was touched
\* during growth and is not absorbed by a merged block.
C10_OccupiedIffTouchedNotMerged ==
    Done => \A p \in AllCells : result.cells[p] <=> (p \in touched /\ p \notin Merged)

\* a result with a merged block, an occupied cell and an untouched cell
C10_Witness ==
    /\ Done
    /\ Merged # {}
    /\ Occupied # {}
    /\ AllCells \ touched # {}


\* ------------------------------------------- vocabulary of the running call
\* the door between adjacent cells p and q is true in the working arrays
Open(p, q) == DoorOpen(p, q, hor_doors, ver_doors)

BodyCells == {p \in DOMAIN cells : cells[p] = BODY}

\* Body neighbours of p / Body neighbours of p behind an open door
BodyNbrs(p) == {q \in Nbrs(p) : cells[q] = BODY}
OpenBodyNbrs(p) == {q \in BodyNbrs(p) : Open(p, q)}

\* growth is over and the dead-end pass is running or just finished
InDeadEndPass == pc \in {"dead_ends", "choice", "loop"}

\* C11 (as stated): for w*h > 1 and any c >= 0, from the start of the dead-end
\* pass on every Body cell has a Body neighbour behind an open door, and the
\* pass does not fail on a cell without one.
C11_BodyHasOpenDoor ==
    (ValidArgs /\ w * h > 1) =>
        /\ InDeadEndPass => \A p \in BodyCells : OpenBodyNbrs(p) # {}
        /\ pc # "failed"

\* C11 (amended): the same for w*h > 1 and c >= 1.
C11_BodyHasOpenDoorWhenHeads ==
    (ValidArgs /\ w * h > 1 /\ c >= 1) =>
        /\ InDeadEndPass => \A p \in BodyCells : OpenBodyNbrs(p) # {}
        /\ pc # "failed"

\* the dead-end pass begins on a partly filled grid of several Body cells
C11_Witness ==
    /\ ValidArgs /\ c >= 1
    /\ pc = "dead_ends" /\ scan = 0
    /\ Cardinality(BodyCells) >= 3
    /\ BodyCells # AllCells


\* no block has been placed yet
BeforeMerge ==
    \/ pc = "grow"
    \/ InDeadEndPass
    \/ (pc = "merge" /\ \A b \in DOMAIN big_cells : ~big_cells[b])

\* C12: in every state before the big-room merge places a block, every true
\* door joins two cells that are both Spawner or Body.
C12_DoorsJoinTouchedCells ==
    BeforeMerge =>
        /\ \A s \in DOMAIN hor_doors :
               hor_doors[s] => \A p \in HorEnds(s) : cells[p] \in {SPAWNER, BODY}
        /\ \A s \in DOMAIN ver_doors :
               ver_doors[s] => \A p \in VerEnds(s) : cells[p] \in {SPAWNER, BODY}

\* the dead-end pass has opened a door on a grid that keeps an Empty cell
\* next to a Body cell
C12_Witness ==
    /\ pc = "loop"
    /\ \E p \in BodyCells : \E q \in Nbrs(p) : cells[q] = EMPTY


\* C13: during growth a cell that changes state goes from Empty to Spawner or
\* from Spawner to Body; no step of the growth loop does anything else to it.
C13_CellsOnlyAdvance ==
    [][pc = "grow" =>
           \A p \in DOMAIN cells :
               cells'[p] # cells[p] =>
                   \/ (cells[p] = EMPTY /\ cells'[p] = SPAWNER)
                   \/ (cells[p] = SPAWNER /\ cells'[p] = BODY)]_vars

\* growth with a Body cell, a Spawner cell and an Empty cell side by side
C13_Witness ==
    /\ pc = "grow"
    /\ waves >= 2
    /\ \E p \in BodyCells : \E q \in Nbrs(p) : cells[q] = EMPTY
    /\ \E p \in DOMAIN cells : cells[p] = SPAWNER


\* Empty cells orthogonally adjacent to a cell of the current frontier
VacancySet ==
    {q \in DOMAIN cells : cells[q] = EMPTY /\ \E p \in Nbrs(q) : cells[p] = SPAWNER}

Max(a, b) == IF a > b THEN a ELSE b

\* C14: a wave iteration that finds a non-empty vacancy set V promotes
\* min(c, |V|) pairwise distinct cells of V, and the frontier never holds more
\* than max(1, c) cells.
C14_HeadsBounded ==
    /\ [](ValidArgs => Len(spawners) <= Max(1, c))
    /\ [][(pc = "grow" /\ VacancySet # {}) =>
              /\ Len(spawners') = Min(c, Cardinality(VacancySet))
              /\ Cardinality(Range(spawners')) = Len(spawners')
              /\ Range(spawners') \subseteq VacancySet]_vars

\* a frontier of c >= 2 sampled heads with a vacancy that was left out
C14_Witness ==
    /\ pc = "grow" /\ c >= 2
    /\ Len(spawners) = c
    /\ \E p \in BodyCells : \E q \in Nbrs(p) :
           cells[q] = EMPTY /\ \A s \in Nbrs(q) : cells[s] # SPAWNER


\* the door between adjacent cells p and q is true after the step
OpenAfter(p, q) == DoorOpen(p, q, hor_doors', ver_doors')

\* C15: in a wave iteration the doors that become true are exactly the edges
\* between a cell promoted in this iteration and an adjacent cell of the
\* current frontier; no other door changes.
C15_WiringExact ==
    [][pc = "grow" =>
           \A p \in DOMAIN cells : \A q \in Nbrs(p) :
               /\ OpenAfter(p, q) <=>
                      \/ Open(p, q)
                      \/ (cells[p] = EMPTY /\ cells'[p] = SPAWNER /\ cells[q] = SPAWNER)
                      \/ (cells[q] = EMPTY /\ cells'[q] = SPAWNER /\ cells[p] = SPAWNER)
               /\ (cells[p] = EMPTY /\ cells'[p] = SPAWNER /\ cells[q] = SPAWNER)
                      => ~Open(p, q)]_vars

\* a frontier cell wired to two cells of the previous frontier while another
\* frontier cell has a Body neighbour of an earlier wave it is not wired to
C15_Witness ==
    /\ pc = "grow"
    /\ \E p \in DOMAIN cells :
           cells[p] = SPAWNER /\ Cardinality(OpenBodyNbrs(p)) >= 2
    /\ \E p \in DOMAIN cells :
           cells[p] = SPAWNER /\ BodyNbrs(p) # OpenBodyNbrs(p)


\* C16: with c = 0 and w*h > 1 the growth loop runs exactly two iterations,
\* and post-processing is entered with the epicenter as the only Body cell,
\* every other cell Empty and every door false.
C16_ZeroHeadsStopsGrowth ==
    (ValidArgs /\ c = 0 /\ w * h > 1) =>
        /\ pc = "grow" => waves <= 1
        /\ (pc = "dead_ends" /\ scan = 0) =>
               /\ waves = 2
               /\ cells = [p \in AllCells |-> IF p = <<px, py>> THEN BODY ELSE EMPTY]
               /\ \A s \in DOMAIN hor_doors : ~hor_doors[s]
               /\ \A s \in DOMAIN ver_doors : ~ver_doors[s]

\* post-processing is entered with c = 0 and Empty cells around the epicenter
C16_Witness ==
    /\ ValidArgs /\ c = 0
    /\ pc = "dead_ends" /\ scan = 0
    /\ Cardinality(Nbrs(<<px, py>>)) >= 3
    /\ \A q \in Nbrs(<<px, py>>) : cells[q] = EMPTY



\* C17: every door-array index the call computes lies inside the array's shape:
\* a LEFT access happens only at x >= 1, a RIGHT access only at x <= w-2, an UP
\* access only at y >= 1, a DOWN access only at y <= h-2, and the four doors of
\* a 2x2 block are touched only for a corner with x <= w-2 and y <= h-2.
C17_DoorIndicesInShape ==
    ValidArgs =>
        \A a \in door_log :
            /\ a.arr = "hor" => a.slot[1] \in 0..(w - 2) /\ a.slot[2] \in 0..(h - 1)
            /\ a.arr = "ver" => a.slot[1] \in 0..(w - 1) /\ a.slot[2] \in 0..(h - 2)
            /\ a.dir = LEFT => a.point[1] >= 1
            /\ a.dir = RIGHT => a.point[1] <= w - 2
            /\ a.dir = UP => a.point[2] >= 1
            /\ a.dir = DOWN => a.point[2] <= h - 2
            /\ a.dir = -1 => a.point[1] \in 0..(w - 2) /\ a.point[2] \in 0..(h - 2)

\* the merge has just cleared the doors of the block in the last corner of a
\* grid, after a step that reached the highest index of both door arrays
C17_Witness ==
    /\ pc = "merge"
    /\ w >= 3 /\ h >= 2
    /\ \E a \in door_log : a.dir = -1 /\ a.arr = "ver" /\ a.slot = <<w - 1, h - 2>>
    /\ \E a \in door_log : a.dir = -1 /\ a.arr = "hor" /\ a.slot = <<w - 2, h - 1>>



\* true doors of cell p
DoorCount(p) == Cardinality({q \in Nbrs(p) : Open(p, q)})

\* the dead-end pass has visited every cell and the merge has not started
DeadEndPassDone == pc = "dead_ends" /\ scan = w * h

\* C18: for c >= 1 and w*h > 1, when the dead-end pass has finished, every Body
\* cell with two or more Body neighbours has at least two true doors, and the
\* chest list holds exactly the Body cells with exactly one true door, in scan
\* order (x ascending, then y ascending) without duplicates.
C18_DeadEndPassResult ==
    (ValidArgs /\ c >= 1 /\ w * h > 1 /\ DeadEndPassDone) =>
        /\ \A p \in BodyCells : Cardinality(BodyNbrs(p)) >= 2 => DoorCount(p) >= 2
        /\ {chests[i] : i \in DOMAIN chests} = {p \in BodyCells : DoorCount(p) = 1}
        /\ \A i, j \in DOMAIN chests :
               i < j => \/ chests[i][1] < chests[j][1]
                        \/ chests[i][1] = chests[j][1] /\ chests[i][2] < chests[j][2]

\* the pass ended with a chest on a grid that also has a cell with three Body
\* neighbours and only two true doors
C18_Witness ==
    /\ ValidArgs /\ c >= 1 /\ DeadEndPassDone
    /\ w >= 2 /\ h >= 2
    /\ Len(chests) >= 1
    /\ \E p \in BodyCells : Cardinality(BodyNbrs(p)) >= 3 /\ DoorCount(p) = 2



\* cells growth has touched so far
NonEmpty == {p \in DOMAIN cells : cells[p] # EMPTY}

\* pairs of adjacent cells of S whose door is true now
OpenEdges(S) == {e \in S \X S : Adjacent(e[1], e[2]) /\ Open(e[1], e[2])}

\* a wave iteration has just ended, or growth has just terminated
GrowthStep == pc = "grow" \/ (pc = "dead_ends" /\ scan = 0)

\* C19: at the end of every wave iteration and at growth termination, for every
\* c >= 0, every Spawner or Body cell is joined to the epicenter by a path of
\* adjacent non-Empty cells whose every step crosses a true door.
C19_GrowthConnected ==
    (ValidArgs /\ GrowthStep) =>
        Reachable({<<px, py>>}, OpenEdges(NonEmpty)) = NonEmpty

\* growth ended after several waves of two heads or more, with a touched cell
\* three steps or more away from the epicenter
C19_Witness ==
    /\ ValidArgs /\ pc = "dead_ends" /\ scan = 0
    /\ c >= 2 /\ waves >= 4
    /\ \E p \in NonEmpty : Abs(p[1] - px) + Abs(p[2] - py) >= 3



\* the corners still listed as candidates of the running merge
Candidates == {p_big_cells[i] : i \in DOMAIN p_big_cells}

\* C20: every block the merge loop can still pick has its four member cells
\* Body and its four internal doors true, although the list was computed once:
\* placing a big cell never invalidates a candidate that survives the filter.
C20_CandidatesStayEligible ==
    pc = "merge" =>
        \A b \in Candidates :
            /\ b[1] \in 0..(w - 2) /\ b[2] \in 0..(h - 2)
            /\ \A p \in AllCells : InBlock(p, b) => cells[p] = BODY
            /\ \A p, q \in AllCells :
                   (InBlock(p, b) /\ InBlock(q, b) /\ Adjacent(p, q)) => Open(p, q)

\* a big cell has been placed and a candidate survived the filter
C20_Witness ==
    /\ pc = "merge"
    /\ \E b \in DOMAIN big_cells : big_cells[b]
    /\ Candidates # {}

====
